---- MODULE Spec2Model ----
(***************************************************************************)
(* GoSalla: the API client (Client, its token lock, the OAuth refresh      *)
(* path and the outbound request path) as a state machine of goroutines    *)
(* that call the client's operations on one shared Client; and the webhook *)
(* side (VerifyWebhookSignature, ParseWebhook, the handler registry and    *)
(* ServeHTTP of WebhookHandlerFunc) as one goroutine that registers        *)
(* handlers and serves inbound requests.                                   *)
(*                                                                         *)
(* Time is counted in minutes: the refresh margin 5*time.Minute is Margin. *)
(***************************************************************************)
EXTENDS Integers, FiniteSets, Sequences, TLC

\* ------------------------------------------------------------------ bounds
NumProcs == 2          \* goroutines sharing the Client
MaxOps   == 2          \* operations started in one behaviour
MaxTime  == 1          \* time.Now() returns values in 0..MaxTime

\* ------------------------------------------------------- program constants
Margin == 5            \* 5*time.Minute, the refresh buffer

Procs  == 1..NumProcs

\* ------------------------------------------------------------------ tokens
\* A *Token: nil, or a record of the four fields of Token.
Nil == [ptr |-> "nil"]

Token(a, r, ty, e) ==
    [AccessToken |-> a, RefreshToken |-> r, TokenType |-> ty, Expiry |-> e]

\* The tokens a host application hands to NewClient.
InitTokens ==
    { Nil,
      Token("a1", "r1", "bearer", 5),     \* on the margin at time 0
      Token("a1", "r1", "bearer", 6),     \* outside the margin until time 1
      Token("a1", "",   "bearer", 6) }    \* the same, without a refresh token

\* The tokens a host application passes to SetToken.
SetTokenArgs ==
    { Nil,
      Token("", "", "", 0),               \* &Token{}
      Token("a3", "r3", "bearer", 9) }

\* Responses of the token endpoint to one POST.
TokenResponses ==
    { [kind |-> "transport"],                                   \* client.Do fails
      [kind |-> "http", status |-> 400, parses |-> TRUE,
       access_token |-> "", refresh_token |-> "", token_type |-> "", expires_in |-> 0],
      [kind |-> "http", status |-> 200, parses |-> FALSE,
       access_token |-> "", refresh_token |-> "", token_type |-> "", expires_in |-> 0] }
    \cup
    { [kind |-> "http", status |-> 201, parses |-> TRUE,
       access_token |-> "a2", refresh_token |-> "r2", token_type |-> "bearer",
       expires_in |-> 8] }
    \cup
    { [kind |-> "http", status |-> 200, parses |-> TRUE,
       access_token |-> "a2", refresh_token |-> x[1], token_type |-> "bearer",
       expires_in |-> x[2]] : x \in {<<"r2", 8>>, <<"r2", 3>>, <<"", 3>>} }

\* Outcomes of httpClient.Do for an API request.
ApiResponses ==
    { [kind |-> "transport"],
      [kind |-> "http", status |-> 200, parses |-> TRUE],
      [kind |-> "http", status |-> 404, parses |-> TRUE] }

\* The arguments a host application passes to the three setters.
URLs        == {"http://test"}
UserAgents  == {"CustomAgent/1.0"}
HTTPClients == {"custom"}
Torn       == "torn"        \* a string read while another goroutine writes it
NoHeader   == "absent"      \* no Authorization header on the request

\* errors of RefreshTokenIfNeeded
ErrNone           == "nil"
ErrNoRefreshToken == "no refresh token available"
ErrRefreshFailed  == "failed to refresh token"

VARIABLES
    token,        \* Client.token
    baseURL,      \* Client.baseURL
    httpClient,   \* Client.httpClient
    userAgent,    \* Client.userAgent
    tokenMu,      \* Client.tokenMu: [w: the goroutine holding or awaiting the
                  \*   write lock, if any; r: the goroutines holding a read lock]
    now,          \* the latest value time.Now() returned, in minutes
    pc,           \* pc[p]: where goroutine p stands
    op,           \* op[p]: the operation p runs ("none" when idle)
    arg,          \* arg[p]: the argument of p's operation
    req,          \* req[p]: the *http.Request p builds: [url, ua, auth]
    ret,          \* ret[p]: what p's last operation returned, a record
    obs,          \* obs[p]: what p's running operation has seen so far: the token
                  \*   at RefreshTokenIfNeeded's check (entry) and return (exit),
                  \*   its error (rfErr), the token do read for the header (seen)
    calls,        \* the refresh calls made to the token endpoint, in order
    given,        \* the tokens the host application supplied: given.NewClient,
                  \*   and the set given.SetToken of those passed to SetToken
    ops,          \* operations started so far
    Secret,       \* WebhookHandlerFunc.Secret
    Handlers,     \* WebhookHandlerFunc.Handlers: event type -> handler
    serve         \* the goroutine using the webhook handler: its position in
                  \*   ServeHTTP, the request, its locals, the statuses written
                  \*   to the ResponseWriter and the user handlers invoked

vars == <<token, baseURL, httpClient, userAgent, tokenMu, now,
          pc, op, arg, req, ret, obs, calls, given, ops,
          Secret, Handlers, serve>>

webhook == <<Secret, Handlers, serve>>

client == <<token, baseURL, httpClient, userAgent, tokenMu>>

NoReq == [url |-> "", ua |-> "", auth |-> NoHeader]
NoObs == [entry |-> Nil, exit |-> Nil, rfErr |-> "unset", seen |-> Nil]

\* ------------------------------------------------------------- pure helpers

\* Mutants of StillValid: Before read as After; the margin's edge counted valid.
StillValidAfter(tok, t) == tok # Nil /\ tok.Expiry < t + Margin
StillValidOnMargin(tok, t) == tok # Nil /\ t + Margin <= tok.Expiry

\* part_002:95  c.token != nil && time.Now().Add(5*time.Minute).Before(c.token.Expiry)
StillValid(tok, t) == tok # Nil /\ t + Margin < tok.Expiry

\* Mutant of NoRefreshToken: only the nil token is caught.
NoRefreshTokenNilOnly(tok) == tok = Nil

\* part_002:99  c.token == nil || c.token.RefreshToken == ""
NoRefreshToken(tok) == tok = Nil \/ tok.RefreshToken = ""

\* Mutant of requestToken: every status from 200 to 299 counts as success.
requestTokenAny2xx(resp, t) ==
    IF resp.kind = "transport"
    THEN [token |-> Nil, err |-> "failed to request token", status |-> 0]
    ELSE IF resp.status < 200 \/ resp.status > 299
    THEN [token |-> Nil, err |-> "token request failed with status",
          status |-> resp.status]
    ELSE IF ~resp.parses
    THEN [token |-> Nil, err |-> "failed to parse token response", status |-> 0]
    ELSE [token |-> Token(resp.access_token, resp.refresh_token,
                          resp.token_type, t + resp.expires_in),
          err |-> ErrNone, status |-> 0]

\* auth.go:98-135  requestToken: the (token, error) for one endpoint response;
\* status is the %d of the error text of line 119, 0 in every other result
requestToken(resp, t) ==
    IF resp.kind = "transport"
    THEN [token |-> Nil, err |-> "failed to request token", status |-> 0]
    ELSE IF resp.status # 200
    THEN [token |-> Nil, err |-> "token request failed with status",
          status |-> resp.status]
    ELSE IF ~resp.parses
    THEN [token |-> Nil, err |-> "failed to parse token response", status |-> 0]
    ELSE [token |-> Token(resp.access_token, resp.refresh_token,
                          resp.token_type, t + resp.expires_in),
          err |-> ErrNone, status |-> 0]

\* Mutants of TokenAfterRefresh: the result assigned before the error is
\* looked at; an absent refresh token filled in from the old token.
TokenAfterRefreshAssigned(tok, res) == res.token
TokenAfterRefreshMerged(tok, res) ==
    IF res.err # ErrNone THEN tok
    ELSE [res.token EXCEPT !.RefreshToken = IF @ = "" THEN tok.RefreshToken ELSE @]

\* Mutant of TokenAfterRefresh: the old refresh token is kept.
TokenAfterRefreshKeepingRefreshToken(tok, res) ==
    IF res.err # ErrNone THEN tok
    ELSE [res.token EXCEPT !.RefreshToken = tok.RefreshToken]

\* part_002:103-109  the token stored after the refresh call returned `res`
TokenAfterRefresh(tok, res) == IF res.err # ErrNone THEN tok ELSE res.token

\* part_002:104-109  the error RefreshTokenIfNeeded returns after the call
ErrAfterRefresh(res) == IF res.err # ErrNone THEN ErrRefreshFailed ELSE ErrNone

\* Mutant of SetAuthHeader: the header is set for every non-nil token.
SetAuthHeaderNonNil(old, tok) == IF tok # Nil THEN tok.AccessToken ELSE old

\* part_002:137-139 and 151-153: the Authorization header after the
\* conditional req.Header.Set, the header being `old` before it
SetAuthHeader(old, tok) ==
    IF tok # Nil /\ tok.AccessToken # "" THEN tok.AccessToken ELSE old

\* part_002:148  the branch of do that rewrites the header is taken on err != nil
HeaderRewritten(err) == err # ErrNone

\* The value an unsynchronised read of a field yields: the field, or, when
\* another goroutine stands at its unsynchronised write, also that write's
\* value or a torn mix (a data race).
RacyRead(cur, writerPc, tearable) ==
    LET ws == {q \in Procs : pc[q] = writerPc}
    IN  {cur} \cup {arg[q] : q \in ws}
              \cup (IF ws # {} /\ tearable THEN {Torn} ELSE {})

\* =========================================================== webhook.go
\* ------------------------------------------------------------ JSON values
\* A JSON string, and a JSON number written as the decimal literal lit.
Str(s)   == [t |-> "string", v |-> s]
Num(lit) == [t |-> "number", v |-> lit]

\* The number literals of the model that denote integers (within int64).
IntLiterals == {"0", "1", "5", "12345", "9007199254740992", "9007199254740993"}

\* encoding/json decoding a number into interface{}: the float64 nearest to
\* the literal, written as json.Marshal writes it back. 2^53+1 is not a
\* float64 and rounds to 2^53; the other literals of the model are exact.
Float64(lit) ==
    IF lit = "9007199254740993" THEN "9007199254740992" ELSE lit

\* time.Time.UnmarshalJSON accepts RFC 3339 text only.
RFC3339 == {"2024-01-01T00:00:00Z"}

\* webhook.go:17,22,29  the event types with a typed registration
EventProductCreated  == "product.created"
EventOrderCreated    == "order.created"
EventCustomerCreated == "customer.created"

\* The event types a host application registers generic handlers for.
EventTypes == {EventProductCreated, "test.event"}

\* The JSON fields of Product, Order and Customer the model keeps, with the
\* Go type each decodes into; typed values are written by JSON field name.
ProductFields  == [id |-> "int", name |-> "string"]
OrderFields    == [id |-> "int", reference_id |-> "string"]
CustomerFields == [id |-> "int", first_name |-> "string"]

Envelope(ev, merchant, data) ==
    [json |-> "object", event |-> Str(ev), merchant |-> merchant,
     data |-> data, created_at |-> Str("2024-01-01T00:00:00Z")]

\* The raw request bodies (and payloads) of the model.
Bodies ==
    { [json |-> "invalid"],                                    \* {invalid json}
      Envelope(EventProductCreated, Num("12345"),
               [id |-> Num("1"), name |-> Str("Test")]),
      Envelope(EventProductCreated, Num("12345"),
               [id |-> Str("x"), name |-> Str("Test")]),       \* id is no int
      Envelope(EventProductCreated, Str("m"),
               [id |-> Num("1"), name |-> Str("Test")]),       \* merchant is no int
      Envelope(EventOrderCreated, Num("12345"),
               [id |-> Num("9007199254740993"), reference_id |-> Str("R1")]),
      Envelope(EventCustomerCreated, Num("12345"),
               [id |-> Num("1"), first_name |-> Str("A")]),
      Envelope(EventCustomerCreated, Num("12345"),
               [id |-> Num("1"), first_name |-> Num("5")]),    \* first_name is no string
      Envelope("test.event", Num("12345"), [id |-> Num("1")]) }

\* ------------------------------------------------------------- signatures
\* A header value or signature string: the empty string (also what
\* Header.Get returns for an absent header), text that is no hex digest, or
\* the hex text of a digest in lower or upper case.
EmptyString == [text |-> ""]
Garbage     == [text |-> "not-a-signature"]

\* crypto/hmac with sha256: the digest of msg under key, taken collision-free
HMAC(key, msg) == [key |-> key, msg |-> msg]

\* hex.EncodeToString: lower-case hex text of the digest
EncodeToString(mac) == [hex |-> mac, case |-> "lower"]

\* The same digits in upper case, as a sender might write them.
UpperHex(mac) == [hex |-> mac, case |-> "upper"]

\* The secrets of the model: unset, the receiver's, a stranger's.
Secrets == {"", "s1", "s2"}

\* Mutant of VerifyWebhookSignature: the payload is left out of the digest.
VerifyKeyOnly(secret, payload, signature) ==
    \E b \in Bodies : signature = EncodeToString(HMAC(secret, b))

\* Mutant of VerifyWebhookSignature: an empty secret accepts everything.
VerifyOpenOnEmptySecret(secret, payload, signature) ==
    secret = "" \/ signature = EncodeToString(HMAC(secret, payload))

\* webhook.go:90-96
VerifyWebhookSignature(secret, payload, signature) ==
    LET expectedMAC == EncodeToString(HMAC(secret, payload))
    IN  signature = expectedMAC

\* ----------------------------------------------------------------- parsing
\* json.Unmarshal of a JSON value into interface{} (a field of Data)
Interface(jv) ==
    IF jv.t = "number" THEN [t |-> "float64", v |-> Float64(jv.v)] ELSE jv

\* webhook.go:99-105  ParseWebhook: json.Unmarshal into WebhookEvent
ParseWebhook(payload) ==
    IF payload.json # "object"
       \/ payload.event.t # "string"
       \/ ~(payload.merchant.t = "number" /\ payload.merchant.v \in IntLiterals)
       \/ ~(payload.created_at.t = "string" /\ payload.created_at.v \in RFC3339)
    THEN [event |-> Nil, err |-> "failed to parse webhook"]
    ELSE [event |-> [Event     |-> payload.event.v,
                     Merchant  |-> payload.merchant.v,
                     Data      |-> [k \in DOMAIN payload.data |->
                                       Interface(payload.data[k])],
                     CreatedAt |-> payload.created_at.v],
          err |-> "nil"]

\* webhook.go:244,263,282  json.Marshal(event.Data): a float64 is written as
\* a number, a string as a string
Marshal(data) ==
    [k \in DOMAIN data |->
        IF data[k].t = "float64" THEN Num(data[k].v) ELSE data[k]]

\* The zero value of a Go type.
Zero(ty) == IF ty = "int" THEN "0" ELSE ""

\* A JSON value decodes into a field of Go type ty.
Fits(jv, ty) ==
    IF ty = "int" THEN jv.t = "number" /\ jv.v \in IntLiterals
    ELSE jv.t = "string"

\* webhook.go:250,269  json.Unmarshal(data, &v) for a struct v with `fields`:
\* a key of another type is an error, an absent key leaves the zero value
Unmarshal(data, fields) ==
    IF \E k \in DOMAIN fields \cap DOMAIN data : ~Fits(data[k], fields[k])
    THEN [value |-> Nil, err |-> "json: cannot unmarshal"]
    ELSE [value |-> [k \in DOMAIN fields |->
                        IF k \in DOMAIN data THEN data[k].v ELSE Zero(fields[k])],
          err |-> "nil"]

\* ------------------------------------------------------- typed conversions
TypedEvent(event, data) ==
    [Event |-> event.Event, Merchant |-> event.Merchant,
     Data |-> data, CreatedAt |-> event.CreatedAt]

\* The typed event a conversion returns, or its error.
Converted(event, res) ==
    IF res.err # "nil" THEN [event |-> Nil, err |-> res.err]
    ELSE [event |-> TypedEvent(event, res.value), err |-> "nil"]

\* webhook.go:243-260
convertToProductEvent(event) ==
    Converted(event, Unmarshal(Marshal(event.Data), ProductFields))

\* webhook.go:262-279
convertToOrderEvent(event) ==
    Converted(event, Unmarshal(Marshal(event.Data), OrderFields))

\* The zero Customer, what `var customer Customer` holds.
ZeroCustomer == [k \in DOMAIN CustomerFields |-> Zero(CustomerFields[k])]

\* webhook.go:281-298  the payload is decoded into `order` (line 288), a name
\* this function does not declare, and never into `customer`: Data is the
\* zero Customer, and the decoding's error is whatever `order` makes of it.
convertToCustomerEvent(event, decodeErr) ==
    Converted(event, [value |-> ZeroCustomer, err |-> decodeErr])

\* The outcomes of the decoding at webhook.go:288.
DecodeErrs == {"nil", "json: cannot unmarshal"}

\* ------------------------------------------------------------- handlers
\* The functions a host application registers: generic ones (WebhookHandler)
\* and one taking a typed event; and what a call of one returns.
UserHandlers  == {"f", "g"}
TypedHandlers == {"h"}
HandlerErrs   == {"nil", "handler failed"}

\* webhook.go:152-154 a generic handler is stored as it is;
\* webhook.go:157-187 a typed one inside a closure that converts first.
Generic(fn)     == [kind |-> "generic", fn |-> fn]
Typed(kind, fn) == [kind |-> kind, fn |-> fn]

\* Calling a registered handler with the parsed event: the calls of user
\* functions it makes (function and argument) and the error it returns, the
\* user function returning userErr.
Call(handler, event, userErr, decodeErr) ==
    LET conv == IF handler.kind = "product" THEN convertToProductEvent(event)
                ELSE IF handler.kind = "order" THEN convertToOrderEvent(event)
                ELSE IF handler.kind = "customer"
                THEN convertToCustomerEvent(event, decodeErr)
                ELSE [event |-> event, err |-> "nil"]
    IN  IF conv.err # "nil"
        THEN [invoked |-> <<>>, err |-> conv.err]
        ELSE [invoked |-> <<[fn |-> handler.fn, kind |-> handler.kind,
                             arg |-> conv.event]>>,
              err |-> userErr]

\* ------------------------------------------------------------- requests
\* The values of a signature header a sender puts on a request with body b:
\* none, the digest under the receiver's secret "s1", one under another.
HeaderValues(b) ==
    {EmptyString, EncodeToString(HMAC("s1", b)), EncodeToString(HMAC("s2", b))}

\* The inbound requests: every POST of a body with its headers, and a GET.
Requests ==
    UNION { [Method : {"POST"}, XSignature : HeaderValues(b),
             Authorization : HeaderValues(b), Body : {b}] : b \in Bodies }
    \cup
    UNION { [Method : {"GET"}, XSignature : HeaderValues(b),
             Authorization : {EmptyString}, Body : {b}] :
            b \in {c \in Bodies : c.json = "invalid" \/ c.event.v = "test.event"} }

\* The signature strings passed to VerifyWebhookSignature directly.
Signatures(b) ==
    {EmptyString, Garbage}
    \cup {EncodeToString(HMAC(k, b)) : k \in Secrets}
    \cup {UpperHex(HMAC(k, b)) : k \in Secrets}
    \cup {EncodeToString(HMAC(k, [json |-> "invalid"])) : k \in Secrets}

\* The registry NewWebhookHandler makes: make(map[string]WebhookHandler)
NoHandlers == [t \in {} |-> Nil]

\* The goroutine between calls, nothing served yet.
Idle ==
    [pc |-> "idle", op |-> "none", r |-> Nil, body |-> Nil, signature |-> Nil,
     event |-> Nil, handler |-> Nil, herr |-> "unset",
     in |-> Nil, out |-> "unset",
     w |-> <<>>, invoked |-> <<>>, steps |-> <<>>]

\* ------------------------------------------------------------------- Init
\* NewClient(oauthConfig, token)
Init ==
    /\ token \in InitTokens
    /\ baseURL = "https://api.salla.dev/admin/v2"
    /\ httpClient = "default"
    /\ userAgent = "gosalla/1.0"
    /\ tokenMu = [w |-> {}, r |-> {}]
    /\ now = 0
    /\ pc = [p \in Procs |-> "idle"]
    /\ op = [p \in Procs |-> "none"]
    /\ arg = [p \in Procs |-> Nil]
    /\ req = [p \in Procs |-> NoReq]
    /\ ret = [p \in Procs |-> [status |-> "none"]]
    /\ obs = [p \in Procs |-> NoObs]
    /\ calls = <<>>
    /\ given = [NewClient |-> token, SetToken |-> {}]
    /\ ops = 0
    /\ Secret = ""
    /\ Handlers = NoHandlers
    /\ serve = Idle

\* A goroutine starts operation o with argument a at label l.
Start(p, o, a, l) ==
    /\ pc[p] = "idle"
    /\ ops < MaxOps
    /\ ops' = ops + 1
    /\ pc' = [pc EXCEPT ![p] = l]
    /\ op' = [op EXCEPT ![p] = o]
    /\ arg' = [arg EXCEPT ![p] = a]
    /\ req' = [req EXCEPT ![p] = NoReq]
    /\ ret' = [ret EXCEPT ![p] = [status |-> "running"]]
    /\ obs' = [obs EXCEPT ![p] = NoObs]
    /\ UNCHANGED webhook

\* The operation of p returns v; its argument and locals are gone.
Return(p, v) ==
    /\ pc' = [pc EXCEPT ![p] = "idle"]
    /\ ret' = [ret EXCEPT ![p] = v]
    /\ arg' = [arg EXCEPT ![p] = Nil]
    /\ req' = [req EXCEPT ![p] = NoReq]
    /\ obs' = [obs EXCEPT ![p] = NoObs]
    /\ UNCHANGED webhook

\* The operation of p goes on at label l, its request being r.
Goto(p, l, r) ==
    /\ pc' = [pc EXCEPT ![p] = l]
    /\ req' = [req EXCEPT ![p] = r]
    /\ UNCHANGED <<ret, arg, webhook>>

\* time.Now() never runs backwards.
Clock == now..MaxTime

\* --------------------------------------------------------- sync.RWMutex
\* Mutant of CanLock: the write lock is granted whoever holds it.
CanLockAlways(p) == TRUE

\* Lock: the writer announces itself (excluding later writers and readers) ...
CanLock(p) == tokenMu.w = {}
\* ... and enters once the readers have left.
HoldsLock(p) == tokenMu.w = {p} /\ tokenMu.r = {}
\* Mutant of CanRLock: a plain mutex, readers excluding one another.
CanRLockAlone(p) == tokenMu.w = {} /\ tokenMu.r = {}
\* RLock: granted unless a writer holds or awaits the lock.
CanRLock(p) == tokenMu.w = {}


\* Mutant of Unlocked: the deferred unlock does not run.
StillLocked(p) == tokenMu

\* defer c.tokenMu.Unlock() / c.tokenMu.RUnlock()
Unlocked(p) == [w |-> tokenMu.w \ {p}, r |-> tokenMu.r \ {p}]

\* Mutant of MuDuringCall: the lock is dropped for the call and only the
\* token write is protected.
MuReleasedDuringCall(p) == Unlocked(p)

\* part_002:91-92  the lock while the refresh call of p is in flight: the
\* deferred Unlock has not run, so p still holds it
MuDuringCall(p) == tokenMu

\* ---------------------------------------------------------------- GetToken
CallGetToken(p) ==
    /\ Start(p, "GetToken", Nil, "GetToken_RLock")
    /\ UNCHANGED <<client, now, calls, given>>

\* part_002:77
GetTokenRLock(p) ==
    /\ pc[p] = "GetToken_RLock"
    /\ CanRLock(p)
    /\ tokenMu' = [tokenMu EXCEPT !.r = @ \cup {p}]
    /\ Goto(p, "GetToken_return", req[p])
    /\ UNCHANGED <<token, baseURL, httpClient, userAgent, now, op, obs,
                   calls, given, ops>>

\* Mutant of GetTokenReturn: the token the Client was built with is returned.
GetTokenReturnInitial(p) ==
    /\ pc[p] = "GetToken_return"
    /\ tokenMu' = Unlocked(p)
    /\ Return(p, given.NewClient)
    /\ UNCHANGED <<token, baseURL, httpClient, userAgent, now, op,
                   calls, given, ops>>

\* part_002:78-79
GetTokenReturn(p) ==
    /\ pc[p] = "GetToken_return"
    /\ tokenMu' = Unlocked(p)
    /\ Return(p, token)
    /\ UNCHANGED <<token, baseURL, httpClient, userAgent, now, op,
                   calls, given, ops>>

\* ---------------------------------------------------------------- SetToken
CallSetToken(p, t) ==
    /\ Start(p, "SetToken", t, "SetToken_Lock")
    /\ given' = [given EXCEPT !.SetToken = @ \cup {t}]
    /\ UNCHANGED <<client, now, calls>>

\* part_002:84
SetTokenLock(p) ==
    /\ pc[p] = "SetToken_Lock"
    /\ CanLock(p)
    /\ tokenMu' = [tokenMu EXCEPT !.w = {p}]
    /\ Goto(p, "SetToken_write", req[p])
    /\ UNCHANGED <<token, baseURL, httpClient, userAgent, now, op, obs,
                   calls, given, ops>>

\* part_002:85-86
SetTokenWrite(p) ==
    /\ pc[p] = "SetToken_write"
    /\ HoldsLock(p)
    /\ token' = arg[p]
    /\ tokenMu' = Unlocked(p)
    /\ Return(p, [status |-> "returned"])
    /\ UNCHANGED <<baseURL, httpClient, userAgent, now, op,
                   calls, given, ops>>

\* ------------------------------------- SetBaseURL, SetHTTPClient, SetUserAgent
CallSetBaseURL(p, u) ==
    /\ Start(p, "SetBaseURL", u, "SetBaseURL")
    /\ UNCHANGED <<client, now, calls, given>>

\* part_002:62
SetBaseURL(p) ==
    /\ pc[p] = "SetBaseURL"
    /\ baseURL' = arg[p]
    /\ Return(p, [status |-> "returned"])
    /\ UNCHANGED <<token, httpClient, userAgent, tokenMu, now, op,
                   calls, given, ops>>

CallSetHTTPClient(p, h) ==
    /\ Start(p, "SetHTTPClient", h, "SetHTTPClient")
    /\ UNCHANGED <<client, now, calls, given>>

\* part_002:67
SetHTTPClient(p) ==
    /\ pc[p] = "SetHTTPClient"
    /\ httpClient' = arg[p]
    /\ Return(p, [status |-> "returned"])
    /\ UNCHANGED <<token, baseURL, userAgent, tokenMu, now, op,
                   calls, given, ops>>

CallSetUserAgent(p, u) ==
    /\ Start(p, "SetUserAgent", u, "SetUserAgent")
    /\ UNCHANGED <<client, now, calls, given>>

\* part_002:72
SetUserAgent(p) ==
    /\ pc[p] = "SetUserAgent"
    /\ userAgent' = arg[p]
    /\ Return(p, [status |-> "returned"])
    /\ UNCHANGED <<token, baseURL, httpClient, tokenMu, now, op,
                   calls, given, ops>>

\* ---------------------------------------------------- RefreshTokenIfNeeded
CallRefreshTokenIfNeeded(p) ==
    /\ Start(p, "RefreshTokenIfNeeded", Nil, "Refresh_Lock")
    /\ UNCHANGED <<client, now, calls, given>>

\* RefreshTokenIfNeeded returns err to its caller: the goroutine itself, or
\* do (part_002:148), which rewrites the header or goes on to send; o is
\* what p has seen of the token by then.
RefreshReturns(p, err, o) ==
    IF op[p] = "RefreshTokenIfNeeded"
    THEN Return(p, [err |-> err])
    ELSE /\ Goto(p, IF HeaderRewritten(err) THEN "do_RLock" ELSE "do_send", req[p])
         /\ obs' = [obs EXCEPT ![p] = o]

\* part_002:91
RefreshLock(p) ==
    /\ pc[p] = "Refresh_Lock"
    /\ CanLock(p)
    /\ tokenMu' = [tokenMu EXCEPT !.w = {p}]
    /\ Goto(p, "Refresh_check", req[p])
    /\ UNCHANGED <<token, baseURL, httpClient, userAgent, now, op, obs,
                   calls, given, ops>>

\* part_002:94-103  the two checks at time t, then a return or the refresh call
RefreshCheck(p, t) ==
    /\ pc[p] = "Refresh_check"
    /\ HoldsLock(p)
    /\ now' = t
    /\ IF StillValid(token, t)
       THEN /\ RefreshReturns(p, ErrNone,
                    [obs[p] EXCEPT !.entry = token, !.exit = token, !.rfErr = ErrNone])
            /\ tokenMu' = Unlocked(p)
       ELSE IF NoRefreshToken(token)
       THEN /\ RefreshReturns(p, ErrNoRefreshToken,
                    [obs[p] EXCEPT !.entry = token, !.exit = token,
                                   !.rfErr = ErrNoRefreshToken])
            /\ tokenMu' = Unlocked(p)
       ELSE /\ Goto(p, "Refresh_inflight", req[p])
            /\ tokenMu' = MuDuringCall(p)
            /\ obs' = [obs EXCEPT ![p].entry = token]
    /\ UNCHANGED <<token, baseURL, httpClient, userAgent, op, calls, given, ops>>

\* part_002:103-109 with auth.go:87-135  the refresh call returns at time t
RefreshDone(p, resp, t) ==
    /\ pc[p] = "Refresh_inflight"
    /\ now' = t
    /\ LET res == requestToken(resp, t)
           err == ErrAfterRefresh(res)
           new == TokenAfterRefresh(token, res)
       IN  /\ token' = new
           /\ calls' = Append(calls, [refresh_token |-> obs[p].entry.RefreshToken,
                                      ok |-> res.err = ErrNone, token |-> res.token])
           /\ RefreshReturns(p, err, [obs[p] EXCEPT !.exit = new, !.rfErr = err])
    /\ tokenMu' = Unlocked(p)
    /\ UNCHANGED <<baseURL, httpClient, userAgent, op, given, ops>>

\* ------------------------------------- OAuthConfig.ExchangeCode / RefreshToken
\* The authorization codes and refresh tokens a host application passes.
Codes         == {"code1"}
RefreshTokens == {"r1"}

\* auth.go:73-83  ExchangeCode(code) builds the form and calls requestToken
CallExchangeCode(p, code) ==
    /\ Start(p, "ExchangeCode", code, "requestToken")
    /\ UNCHANGED <<client, now, calls, given>>

\* auth.go:86-94  RefreshToken(refreshToken), called by the host application
CallRefreshToken(p, rt) ==
    /\ Start(p, "RefreshToken", rt, "requestToken")
    /\ UNCHANGED <<client, now, calls, given>>

\* auth.go:98-135  the endpoint answers resp at time t and the exchange
\* returns; ret keeps the answer, the time and the (token, error) returned
RequestTokenDone(p, resp, t) ==
    /\ pc[p] = "requestToken"
    /\ now' = t
    /\ Return(p, [resp |-> resp, at |-> t, res |-> requestToken(resp, t)])
    /\ UNCHANGED <<client, op, calls, given, ops>>

NextExchange ==
    \/ \E p \in Procs : \E c \in Codes : CallExchangeCode(p, c)
    \/ \E p \in Procs : \E rt \in RefreshTokens : CallRefreshToken(p, rt)
    \/ \E p \in Procs : \E resp \in TokenResponses : \E t \in Clock :
          RequestTokenDone(p, resp, t)

\* The two token-endpoint exchanges of OAuthConfig, called directly.
SpecExchange == Init /\ [][NextExchange]_vars

\* ------------------------------------------------- functions without state
\* A goroutine calls a function that touches no shared state: the call and
\* its return are one step, ret[p] keeping the arguments and the results.
Pure(p, o, v) ==
    /\ pc[p] = "idle"
    /\ op' = [op EXCEPT ![p] = o]
    /\ ret' = [ret EXCEPT ![p] = v]
    /\ UNCHANGED <<client, pc, arg, req, obs, calls, given, ops, webhook>>

\* Mutant of Valid: a token is valid up to and including its expiry.
ValidUntilExpiry(tok, t) == tok.AccessToken # "" /\ t <= tok.Expiry

\* auth.go:45-47  t.AccessToken != "" && time.Now().Before(t.Expiry)
Valid(tok, t) == tok.AccessToken # "" /\ t < tok.Expiry

\* The tokens Valid is called on: with and without an access token, expiring
\* at each time of the model and one later.
ValidArgs ==
    {Token(a, "r1", "bearer", e) : a \in {"", "a1"}, e \in 0..(MaxTime + 1)}

\* auth.go:45-47  tok.Valid() called at time t
CallValid(p, tok, t) ==
    /\ now' = t
    /\ Pure(p, "Valid", [tok |-> tok, at |-> t, valid |-> Valid(tok, t)])

NextValid == \E p \in Procs : \E tok \in ValidArgs : \E t \in Clock : CallValid(p, tok, t)

\* Token.Valid alone, on every token and time of the model.
SpecValid == Init /\ [][NextValid]_vars

\* ------------------------------------------------------ errors of the API
StatusUnauthorized    == 401
StatusNotFound        == 404
StatusTooManyRequests == 429

\* Go error values: nil, an *APIError with its status, any other error.
NoError          == [type |-> "nil"]
Errorf(text)     == [type |-> "*fmt.wrapError", text |-> text]
APIError(status) == [type |-> "*APIError", StatusCode |-> status]

\* products.go:276-281
IsNotFoundError(err) ==
    IF err.type = "*APIError" THEN err.StatusCode = StatusNotFound ELSE FALSE

\* products.go:284-289
IsUnauthorizedError(err) ==
    IF err.type = "*APIError" THEN err.StatusCode = StatusUnauthorized ELSE FALSE

\* products.go:292-297
IsRateLimitError(err) ==
    IF err.type = "*APIError" THEN err.StatusCode = StatusTooManyRequests ELSE FALSE

\* products.go:248-272  whatever the body, the error carries resp.StatusCode
parseErrorResponse(resp) == APIError(resp.status)

\* Mutant of doError: only the statuses from 400 on are errors.
doErrorFrom400(resp) ==
    IF resp.kind = "transport" THEN Errorf("request failed")
    ELSE IF resp.status >= 400 THEN parseErrorResponse(resp)
    ELSE IF ~resp.parses THEN Errorf("failed to parse response")
    ELSE NoError

\* part_002:157-180  the error do returns for the transport's response
doError(resp) ==
    IF resp.kind = "transport" THEN Errorf("request failed")
    ELSE IF resp.status < 200 \/ resp.status >= 300 THEN parseErrorResponse(resp)
    ELSE IF ~resp.parses THEN Errorf("failed to parse response")
    ELSE NoError

\* The statuses a response may have: the ends of 200..299, their neighbours,
\* the three the predicates name and one more.
ApiStatuses == {199, 200, 299, 300, StatusUnauthorized, StatusNotFound,
                StatusTooManyRequests, 500}

\* The responses do may get: none, or a status with a body that parses
\* (or, for 200, one that does not).
ErrorResponses ==
    {[kind |-> "transport"]}
      \cup {[kind |-> "http", status |-> s, parses |-> TRUE] : s \in ApiStatuses}
      \cup {[kind |-> "http", status |-> 200, parses |-> FALSE]}

\* The errors a caller may hand to the predicates.
Errors ==
    {NoError, Errorf("request failed"), Errorf("some other error")}
      \cup {APIError(s) : s \in ApiStatuses}

\* The three predicates applied to err.
Classified(err) ==
    [IsNotFoundError     |-> IsNotFoundError(err),
     IsUnauthorizedError |-> IsUnauthorizedError(err),
     IsRateLimitError    |-> IsRateLimitError(err)]

\* part_002:157-180, e.g. products.go:198  a call gets resp and returns do's
\* error, which the caller classifies
DoResponse(p, resp) ==
    /\ Pure(p, "do", [resp |-> resp, err |-> doError(resp),
                      is |-> Classified(doError(resp))])
    /\ now' = now

\* products.go:276-297  the predicates applied to an error of the caller
Classify(p, err) ==
    /\ Pure(p, "Classify", [err |-> err, is |-> Classified(err)])
    /\ now' = now

NextErrors ==
    \/ \E p \in Procs : \E resp \in ErrorResponses : DoResponse(p, resp)
    \/ \E p \in Procs : \E err \in Errors : Classify(p, err)

\* The errors of outbound calls and their classification.
SpecErrors == Init /\ [][NextErrors]_vars

\* -------------------------------------------------------------- Pagination
\* Go's int, scaled down to IntBits bits: MinInt..MaxInt, sums wrapping.
IntBits == 3
MinInt  == -(2^(IntBits - 1))
MaxInt  == 2^(IntBits - 1) - 1
Wrap(x) == ((x - MinInt) % (2^IntBits)) + MinInt

\* pagination.go:4-11  the two fields the methods read
Page(current, last) == [CurrentPage |-> current, LastPage |-> last]

\* The receivers: nil, and every current page against a last page that is
\* the least int, one or the greatest int.
Paginations ==
    {Nil} \cup {Page(c, l) : c \in MinInt..MaxInt, l \in {MinInt, 1, MaxInt}}

\* pagination.go:14-19
HasNextPage(pg) == IF pg = Nil THEN FALSE ELSE pg.CurrentPage < pg.LastPage

\* pagination.go:22-27
NextPage(pg) == IF ~HasNextPage(pg) THEN 0 ELSE Wrap(pg.CurrentPage + 1)

\* Mutant of HasPreviousPage: page 1 has a previous page.
HasPreviousPageFromOne(pg) == IF pg = Nil THEN FALSE ELSE pg.CurrentPage > 0

\* pagination.go:30-35
HasPreviousPage(pg) == IF pg = Nil THEN FALSE ELSE pg.CurrentPage > 1

\* pagination.go:38-43
PreviousPage(pg) == IF ~HasPreviousPage(pg) THEN 0 ELSE Wrap(pg.CurrentPage - 1)

\* pagination.go:14-43  the four methods called on pg
CallPagination(p, pg) ==
    /\ Pure(p, "Pagination", [p               |-> pg,
                              HasNextPage     |-> HasNextPage(pg),
                              NextPage        |-> NextPage(pg),
                              HasPreviousPage |-> HasPreviousPage(pg),
                              PreviousPage    |-> PreviousPage(pg)])
    /\ now' = now

NextPagination == \E p \in Procs : \E pg \in Paginations : CallPagination(p, pg)

\* The methods of Pagination, on every receiver of the model.
SpecPagination == Init /\ [][NextPagination]_vars

\* ------------------------------------------- a resource call: newRequest, do
\* e.g. products.go:108-114
CallService(p) ==
    /\ Start(p, "service", Nil, "newRequest_url")
    /\ UNCHANGED <<client, now, calls, given>>

\* part_002:114-128  the URL is formatted from c.baseURL, read without a lock;
\* a URL that does not parse ends the call
NewRequestURL(p) ==
    /\ pc[p] = "newRequest_url"
    /\ \E u \in RacyRead(baseURL, "SetBaseURL", TRUE) :
         IF u = Torn
         THEN Return(p, [err |-> "failed to create request"])
         ELSE /\ Goto(p, "newRequest_userAgent", [req[p] EXCEPT !.url = u])
              /\ obs' = obs
    /\ UNCHANGED <<client, now, op, calls, given, ops>>

\* part_002:133  c.userAgent, read without a lock
NewRequestUserAgent(p) ==
    /\ pc[p] = "newRequest_userAgent"
    /\ \E u \in RacyRead(userAgent, "SetUserAgent", TRUE) :
         Goto(p, "newRequest_RLock", [req[p] EXCEPT !.ua = u])
    /\ UNCHANGED <<client, now, op, obs, calls, given, ops>>

\* part_002:136
NewRequestRLock(p) ==
    /\ pc[p] = "newRequest_RLock"
    /\ CanRLock(p)
    /\ tokenMu' = [tokenMu EXCEPT !.r = @ \cup {p}]
    /\ Goto(p, "newRequest_auth", req[p])
    /\ UNCHANGED <<token, baseURL, httpClient, userAgent, now, op, obs,
                   calls, given, ops>>

\* part_002:137-142, then the service calls do, which starts with
\* RefreshTokenIfNeeded (part_002:148)
NewRequestAuth(p) ==
    /\ pc[p] = "newRequest_auth"
    /\ Goto(p, "Refresh_Lock", [req[p] EXCEPT !.auth = SetAuthHeader(@, token)])
    /\ tokenMu' = Unlocked(p)
    /\ UNCHANGED <<token, baseURL, httpClient, userAgent, now, op, obs,
                   calls, given, ops>>

\* part_002:150
DoRLock(p) ==
    /\ pc[p] = "do_RLock"
    /\ CanRLock(p)
    /\ tokenMu' = [tokenMu EXCEPT !.r = @ \cup {p}]
    /\ Goto(p, "do_auth", req[p])
    /\ UNCHANGED <<token, baseURL, httpClient, userAgent, now, op, obs,
                   calls, given, ops>>

\* part_002:151-154
DoAuth(p) ==
    /\ pc[p] = "do_auth"
    /\ Goto(p, "do_send", [req[p] EXCEPT !.auth = SetAuthHeader(@, token)])
    /\ obs' = [obs EXCEPT ![p].seen = token]
    /\ tokenMu' = Unlocked(p)
    /\ UNCHANGED <<token, baseURL, httpClient, userAgent, now, op,
                   calls, given, ops>>

\* part_002:157-180  the outcome of do for the transport's response
doResult(resp) ==
    IF resp.kind = "transport" THEN "request failed"
    ELSE IF resp.status < 200 \/ resp.status >= 300 THEN "APIError"
    ELSE IF ~resp.parses THEN "failed to parse response"
    ELSE "nil"

\* part_002:157-180  c.httpClient, read without a lock, sends the request
DoSend(p, resp) ==
    /\ pc[p] = "do_send"
    /\ \E h \in RacyRead(httpClient, "SetHTTPClient", FALSE) :
         Return(p, [err |-> doResult(resp)])
    /\ UNCHANGED <<client, now, op, calls, given, ops>>

\* The operations on the token: GetToken, SetToken, RefreshTokenIfNeeded and
\* the resource calls.
NextToken ==
    \/ \E p \in Procs : CallGetToken(p)
    \/ \E p \in Procs : GetTokenRLock(p)
    \/ \E p \in Procs : GetTokenReturn(p)
    \/ \E p \in Procs : \E t \in SetTokenArgs : CallSetToken(p, t)
    \/ \E p \in Procs : SetTokenLock(p)
    \/ \E p \in Procs : SetTokenWrite(p)
    \/ \E p \in Procs : CallRefreshTokenIfNeeded(p)
    \/ \E p \in Procs : RefreshLock(p)
    \/ \E p \in Procs : \E t \in Clock : RefreshCheck(p, t)
    \/ \E p \in Procs : \E resp \in TokenResponses : \E t \in Clock :
          RefreshDone(p, resp, t)
    \/ \E p \in Procs : CallService(p)
    \/ \E p \in Procs : NewRequestURL(p)
    \/ \E p \in Procs : NewRequestUserAgent(p)
    \/ \E p \in Procs : NewRequestRLock(p)
    \/ \E p \in Procs : NewRequestAuth(p)
    \/ \E p \in Procs : DoRLock(p)
    \/ \E p \in Procs : DoAuth(p)
    \/ \E p \in Procs : \E resp \in ApiResponses : DoSend(p, resp)

\* The three setters of the Client's plain fields.
NextSetters ==
    \/ \E p \in Procs : \E u \in URLs : CallSetBaseURL(p, u)
    \/ \E p \in Procs : SetBaseURL(p)
    \/ \E p \in Procs : \E h \in HTTPClients : CallSetHTTPClient(p, h)
    \/ \E p \in Procs : SetHTTPClient(p)
    \/ \E p \in Procs : \E u \in UserAgents : CallSetUserAgent(p, u)
    \/ \E p \in Procs : SetUserAgent(p)

Next == NextToken \/ NextSetters

\* Every public operation of the Client, in any interleaving.
Spec == Init /\ [][Next]_vars

\* The operations on the token alone: the plain fields keep the values
\* NewClient gave them.
SpecToken == Init /\ [][NextToken]_vars

\* The next statement of goroutine p inside the operation it has started.
Step(p) ==
    \/ GetTokenRLock(p)
    \/ GetTokenReturn(p)
    \/ SetTokenLock(p)
    \/ SetTokenWrite(p)
    \/ RefreshLock(p)
    \/ \E t \in Clock : RefreshCheck(p, t)
    \/ \E resp \in TokenResponses : \E t \in Clock : RefreshDone(p, resp, t)
    \/ NewRequestURL(p)
    \/ NewRequestUserAgent(p)
    \/ NewRequestRLock(p)
    \/ NewRequestAuth(p)
    \/ DoRLock(p)
    \/ DoAuth(p)
    \/ \E resp \in ApiResponses : DoSend(p, resp)

\* The scheduler runs every goroutine that can take a step, a lock that
\* stays free is granted, and both HTTP exchanges end: the client of the
\* token endpoint (auth.go:106) and the one NewClient builds (part_002:44)
\* have a timeout of 30 seconds. Every step of a goroutine moves its pc.
Fairness == \A p \in Procs : WF_pc(Step(p))

\* The operations on the token under fair scheduling.
SpecTokenFair == Init /\ [][NextToken]_vars /\ Fairness

\* =============================================== the webhook handler's steps
\* The Client's side, which no webhook operation touches.
clientSide == <<token, baseURL, httpClient, userAgent, tokenMu, now,
                pc, op, arg, req, ret, obs, calls, given, ops>>

\* The secrets a host application passes to NewWebhookHandler.
HandlerSecrets == {"", "s1"}

\* webhook.go:144-149  NewWebhookHandler(secret), beside a Client without token
InitWebhook ==
    /\ token = Nil
    /\ baseURL = "https://api.salla.dev/admin/v2"
    /\ httpClient = "default"
    /\ userAgent = "gosalla/1.0"
    /\ tokenMu = [w |-> {}, r |-> {}]
    /\ now = 0
    /\ pc = [p \in Procs |-> "idle"]
    /\ op = [p \in Procs |-> "none"]
    /\ arg = [p \in Procs |-> Nil]
    /\ req = [p \in Procs |-> NoReq]
    /\ ret = [p \in Procs |-> [status |-> "none"]]
    /\ obs = [p \in Procs |-> NoObs]
    /\ calls = <<>>
    /\ given = [NewClient |-> Nil, SetToken |-> {}]
    /\ ops = 0
    /\ Secret \in HandlerSecrets
    /\ Handlers = NoHandlers
    /\ serve = Idle

\* Mutant of Put: an event type keeps the handler it has.
PutIfAbsent(eventType, handler) ==
    [t \in DOMAIN Handlers \cup {eventType} |->
        IF t \in DOMAIN Handlers THEN Handlers[t] ELSE handler]

\* h.Handlers[eventType] = handler
Put(eventType, handler) ==
    [t \in DOMAIN Handlers \cup {eventType} |->
        IF t = eventType THEN handler ELSE Handlers[t]]

\* A registration, made between requests; serve.in remembers the call and
\* the handler the event type had before it.
Register(eventType, handler) ==
    /\ serve.pc = "idle"
    /\ Handlers' = Put(eventType, handler)
    /\ serve' = [Idle EXCEPT
                   !.op = "On",
                   !.in = [eventType |-> eventType, handler |-> handler,
                           replaced |-> IF eventType \in DOMAIN Handlers
                                        THEN Handlers[eventType] ELSE Nil]]
    /\ UNCHANGED <<Secret, clientSide>>

\* webhook.go:152-154
On(eventType, fn) == Register(eventType, Generic(fn))

\* webhook.go:157-165
OnProductCreated(fn) ==
    Register(EventProductCreated, Typed("product", fn))

\* webhook.go:168-176
OnOrderCreated(fn) ==
    Register(EventOrderCreated, Typed("order", fn))

\* webhook.go:179-187
OnCustomerCreated(fn) ==
    Register(EventCustomerCreated, Typed("customer", fn))

\* A direct call of VerifyWebhookSignature by the host application.
CallVerifyWebhookSignature(secret, payload, signature) ==
    /\ serve.pc = "idle"
    /\ serve' = [Idle EXCEPT
                   !.op = "VerifyWebhookSignature",
                   !.in = [secret |-> secret, payload |-> payload,
                           signature |-> signature],
                   !.out = VerifyWebhookSignature(secret, payload, signature)]
    /\ UNCHANGED <<Secret, Handlers, clientSide>>

\* ServeHTTP has run the named step.
Did(sv, step) == [sv EXCEPT !.steps = Append(@, step)]

\* The text of a response: a fixed message, and for fmt.Sprintf("...: %v",
\* err) the error's text after it.
Text(msg, err) == [msg |-> msg, err |-> err]

\* Mutant of Answer: the status is written a second time before the return.
AnswerTwice(sv, status, body) ==
    [sv EXCEPT !.pc = "return",
               !.w = @ \o <<[status |-> status, body |-> body],
                            [status |-> status, body |-> body]>>]

\* http.Error / w.WriteHeader, then the return statement.
Answer(sv, status, body) ==
    [sv EXCEPT !.pc = "return",
               !.w = Append(@, [status |-> status, body |-> body])]

\* net/http calls h.ServeHTTP(w, r).
ServeHTTP(r) ==
    /\ serve.pc = "idle"
    /\ serve' = [Idle EXCEPT !.pc = "method", !.op = "ServeHTTP", !.r = r]
    /\ UNCHANGED <<Secret, Handlers, clientSide>>

\* Mutant of MethodAllowed: every method is served.
AnyMethodAllowed(method) == TRUE

\* webhook.go:191  r.Method != http.MethodPost is refused
MethodAllowed(method) == method = "POST"

\* webhook.go:191-194
ServeMethod ==
    /\ serve.pc = "method"
    /\ serve' = IF ~MethodAllowed(serve.r.Method)
                THEN Answer(Did(serve, "method"), 405, Text("Method not allowed", ""))
                ELSE [Did(serve, "method") EXCEPT !.pc = "readBody"]
    /\ UNCHANGED <<Secret, Handlers, clientSide>>

\* webhook.go:197-201  io.ReadAll(r.Body) succeeds (ok) or fails
ServeReadBody(ok) ==
    /\ serve.pc = "readBody"
    /\ serve' = IF ~ok
                THEN Answer(Did(serve, "readBody"), 400,
                            Text("Failed to read request body", ""))
                ELSE [Did(serve, "readBody") EXCEPT !.pc = "verify",
                                                    !.body = serve.r.Body]
    /\ UNCHANGED <<Secret, Handlers, clientSide>>

\* Mutant of SignatureOf: the Authorization header is looked at first.
SignatureOfAuthorizationFirst(r) ==
    IF r.Authorization = EmptyString THEN r.XSignature ELSE r.Authorization

\* webhook.go:206-210  X-Signature, or Authorization when that is empty
SignatureOf(r) ==
    IF r.XSignature = EmptyString THEN r.Authorization ELSE r.XSignature

\* Mutant of SecretConfigured: the signature is checked whatever the secret.
SecretAlwaysConfigured(secret) == TRUE

\* webhook.go:205  h.Secret != ""
SecretConfigured(secret) == secret # ""

\* webhook.go:205-216
ServeVerify ==
    /\ serve.pc = "verify"
    /\ serve' =
         IF SecretConfigured(Secret)
         THEN LET sv == [Did(serve, "verify") EXCEPT
                            !.signature = SignatureOf(serve.r)]
              IN  IF ~VerifyWebhookSignature(Secret, serve.body, sv.signature)
                  THEN Answer(sv, 401, Text("Invalid signature", ""))
                  ELSE [sv EXCEPT !.pc = "parse"]
         ELSE [serve EXCEPT !.pc = "parse"]
    /\ UNCHANGED <<Secret, Handlers, clientSide>>

\* webhook.go:219-223
ServeParse ==
    /\ serve.pc = "parse"
    /\ LET res == ParseWebhook(serve.body)
       IN  serve' = IF res.err # "nil"
                    THEN Answer(Did(serve, "parse"), 400,
                                Text("Failed to parse webhook", res.err))
                    ELSE [Did(serve, "parse") EXCEPT !.pc = "lookup",
                                                     !.event = res.event]
    /\ UNCHANGED <<Secret, Handlers, clientSide>>

\* Mutant of Lookup: a missing event type falls back to some registered one.
LookupAny(handlers, eventType) ==
    IF eventType \in DOMAIN handlers
    THEN [exists |-> TRUE, handler |-> handlers[eventType]]
    ELSE IF DOMAIN handlers # {}
    THEN [exists |-> TRUE,
          handler |-> handlers[CHOOSE t \in DOMAIN handlers : TRUE]]
    ELSE [exists |-> FALSE, handler |-> Nil]

\* webhook.go:226  handler, exists := h.Handlers[event.Event]
Lookup(handlers, eventType) ==
    IF eventType \in DOMAIN handlers
    THEN [exists |-> TRUE, handler |-> handlers[eventType]]
    ELSE [exists |-> FALSE, handler |-> Nil]

\* webhook.go:226-231
ServeLookup ==
    /\ serve.pc = "lookup"
    /\ LET found == Lookup(Handlers, serve.event.Event)
       IN  serve' = IF ~found.exists
                    THEN Answer(Did(serve, "lookup"), 200, Text("", ""))
                    ELSE [Did(serve, "lookup") EXCEPT !.pc = "handler",
                                                      !.handler = found.handler]
    /\ UNCHANGED <<Secret, Handlers, clientSide>>

\* Mutant of StatusOf: the handler's error is dropped.
StatusOfIgnoringError(err) == 200

\* webhook.go:234-239  the status written after the handler returned err
StatusOf(err) == IF err # "nil" THEN 500 ELSE 200

\* webhook.go:234-239  handler(event), the user function returning userErr
ServeHandler(userErr, decodeErr) ==
    /\ serve.pc = "handler"
    /\ LET c  == Call(serve.handler, serve.event, userErr, decodeErr)
           sv == [Did(serve, "handler") EXCEPT !.invoked = c.invoked,
                                               !.herr = c.err]
       IN  serve' = Answer(sv, StatusOf(c.err),
                           IF c.err # "nil" THEN Text("Handler error", c.err)
                           ELSE Text("", ""))
    /\ UNCHANGED <<Secret, Handlers, clientSide>>

\* ServeHTTP returns; net/http sends the response and the locals are gone.
ServeReturn ==
    /\ serve.pc = "return"
    /\ serve' = Idle
    /\ UNCHANGED <<Secret, Handlers, clientSide>>

NextWebhook ==
    \/ \E e \in EventTypes : \E fn \in UserHandlers : On(e, fn)
    \/ \E fn \in TypedHandlers : OnProductCreated(fn)
    \/ \E fn \in TypedHandlers : OnOrderCreated(fn)
    \/ \E fn \in TypedHandlers : OnCustomerCreated(fn)
    \/ \E r \in Requests : ServeHTTP(r)
    \/ ServeMethod
    \/ \E ok \in BOOLEAN : ServeReadBody(ok)
    \/ ServeVerify
    \/ ServeParse
    \/ ServeLookup
    \/ \E userErr \in HandlerErrs : \E decodeErr \in DecodeErrs :
          ServeHandler(userErr, decodeErr)
    \/ ServeReturn

\* The webhook handler of one host application: registrations, direct
\* signature checks and inbound requests, one after the other.
SpecWebhook == InitWebhook /\ [][NextWebhook]_vars

NextVerify ==
    \E k \in Secrets : \E b \in Bodies : \E s \in Signatures(b) :
       CallVerifyWebhookSignature(k, b, s)

\* VerifyWebhookSignature alone, called with every secret, payload and
\* signature of the model.
SpecVerify == InitWebhook /\ [][NextVerify]_vars

\* ======================================================== the claims
\* The bearer credential a request carries for token tok.
HeaderOf(tok) == IF tok # Nil /\ tok.AccessToken # "" THEN tok.AccessToken ELSE NoHeader

\* The tokens that exist as wholes: NewClient's, SetToken's, the endpoint's.
Whole == {given.NewClient} \cup given.SetToken
            \cup {calls[i].token : i \in {j \in 1..Len(calls) : calls[j].ok}}

\* p has called RefreshTokenIfNeeded, directly or through do.
Caller(p) == op[p] \in {"RefreshTokenIfNeeded", "service"}

\* The error RefreshTokenIfNeeded of p returned in the step just taken.
RefreshErr(p) ==
    IF op[p] # "RefreshTokenIfNeeded" THEN obs'[p].rfErr
    ELSE IF pc'[p] = "idle" THEN ret'[p].err ELSE "unset"

\* C1: at most one refresh call to the token endpoint is in flight at any
\* moment, however many goroutines call RefreshTokenIfNeeded or do.
C1_OneRefreshInFlight ==
    Cardinality({p \in Procs : pc[p] = "Refresh_inflight"}) <= 1

\* A refresh call is in flight while another caller waits for the lock.
C1_Witness ==
    \E p, q \in Procs : pc[p] = "Refresh_inflight" /\ pc[q] = "Refresh_Lock"

\* The N callers stand in one expiry window: NewClient's token is on or inside
\* the margin from the start and has a refresh token, no SetToken was called,
\* every goroutine has returned and at least one called RefreshTokenIfNeeded.
SameWindow ==
    /\ given.SetToken = {}
    /\ given.NewClient # Nil
    /\ given.NewClient.Expiry <= 0 + Margin
    /\ given.NewClient.RefreshToken # ""
    /\ \A p \in Procs : pc[p] = "idle"
    /\ \E p \in Procs : Caller(p)

C3_SendsTokenAfterRefresh ==
    \A p \in Procs :
       pc[p] = "do_send" => req[p].auth = HeaderOf(obs[p].exit)

\* C4: when the refresh call made by RefreshTokenIfNeeded fails, the stored
\* token afterwards is the token stored before the call, and
\* RefreshTokenIfNeeded returns a non-nil error.
C4_FailedRefreshKeepsToken ==
    [][\A p \in Procs :
          (/\ pc[p] = "Refresh_inflight" /\ pc'[p] # "Refresh_inflight"
           /\ Len(calls') = Len(calls) + 1
           /\ ~calls'[Len(calls')].ok)
          => (token' = obs[p].entry /\ RefreshErr(p) # ErrNone)]_vars

\* A RefreshTokenIfNeeded has returned the error of a failed refresh call.
C4_Witness ==
    \E p \in Procs :
       /\ op[p] = "RefreshTokenIfNeeded" /\ pc[p] = "idle"
       /\ ret[p] = [err |-> ErrRefreshFailed]
       /\ Len(calls) >= 1 /\ ~calls[Len(calls)].ok
       /\ token = given.NewClient

\* C5: when the token needs refreshing (nil, expired or on the margin) and
\* there is no refresh token (token nil or refresh token empty),
\* RefreshTokenIfNeeded fails with "no refresh token available", makes no
\* call to the token endpoint and leaves the token as it was.
C5_NoRefreshTokenNoCall ==
    [][\A p \in Procs :
          (/\ pc[p] = "Refresh_check" /\ pc'[p] # "Refresh_check"
           /\ (token = Nil \/ token.Expiry <= now' + Margin)
           /\ (token = Nil \/ token.RefreshToken = ""))
          => (/\ RefreshErr(p) = ErrNoRefreshToken
              /\ pc'[p] # "Refresh_inflight"
              /\ calls' = calls
              /\ token' = token)]_vars

\* A RefreshTokenIfNeeded has failed on a stored token without refresh token.
C5_Witness ==
    \E p \in Procs :
       /\ op[p] = "RefreshTokenIfNeeded" /\ pc[p] = "idle"
       /\ ret[p] = [err |-> ErrNoRefreshToken]
       /\ token # Nil /\ token.RefreshToken = ""
       /\ calls = <<>>

\* C6: RefreshTokenIfNeeded goes on to a refresh if and only if the token is
\* missing or expires not more than 5 minutes after the current time; with
\* an expiry more than 5 minutes ahead it returns nil, makes no call and
\* leaves the token as it was, refresh token or not.
C6_RefreshIffDue ==
    [][\A p \in Procs :
          (pc[p] = "Refresh_check" /\ pc'[p] # "Refresh_check") =>
             IF token # Nil /\ token.Expiry > now' + Margin
             THEN /\ RefreshErr(p) = ErrNone
                  /\ pc'[p] # "Refresh_inflight"
                  /\ calls' = calls
                  /\ token' = token
             ELSE \/ pc'[p] = "Refresh_inflight"
                  \/ RefreshErr(p) = ErrNoRefreshToken]_vars

\* A RefreshTokenIfNeeded has returned nil, without any call, on a fresh
\* token that has no refresh token.
C6_Witness ==
    \E p \in Procs :
       /\ op[p] = "RefreshTokenIfNeeded" /\ pc[p] = "idle"
       /\ ret[p] = [err |-> ErrNone]
       /\ calls = <<>>
       /\ token # Nil /\ token.RefreshToken = "" /\ token.Expiry > now + Margin

\* C7: when the refresh inside do fails, the request is still sent, carrying
\* whatever token is stored when do looks at it, and do returns the outcome
\* of the HTTP exchange.
C7_SendsStoredTokenAfterFailure ==
    \A p \in Procs :
       (op[p] = "service" /\ obs[p].rfErr \notin {"unset", ErrNone}) =>
          /\ pc[p] \in {"do_RLock", "do_auth", "do_send"}
          /\ pc[p] = "do_send" => req[p].auth = HeaderOf(obs[p].seen)

\* C8: the stored token is always one whole token: NewClient's, one passed
\* to SetToken, or one returned by a successful refresh call; and so is every
\* token a reader (GetToken, newRequest, do) has seen.
C8_TokenIsWhole ==
    /\ token \in Whole
    /\ \A p \in Procs :
          /\ (op[p] = "GetToken" /\ pc[p] = "idle") => ret[p] \in Whole
          /\ obs[p].seen \in Whole \cup {Nil}
          /\ req[p].auth \in {NoHeader} \cup {HeaderOf(t) : t \in Whole}

\* The stored token came from a refresh call and a GetToken has returned it.
C8_Witness ==
    /\ Len(calls) >= 1 /\ calls[1].ok /\ token = calls[1].token
    /\ token.RefreshToken = ""
    /\ \E p \in Procs : op[p] = "GetToken" /\ pc[p] = "idle" /\ ret[p] = token

\* q holds the write lock of tokenMu or waits for it.
Writing(q) == pc[q] \in {"SetToken_write", "Refresh_check", "Refresh_inflight"}

\* C9 as claimed: a GetToken is never made to wait.
C9_GetTokenNeverWaits ==
    \A p \in Procs : pc[p] = "GetToken_RLock" => ENABLED GetTokenRLock(p)

\* C9 amended: a GetToken waits exactly while a SetToken or a
\* RefreshTokenIfNeeded holds or awaits the write lock (the whole of an
\* in-flight refresh call included), never for other readers.
C9_GetTokenWaitsForWritersOnly ==
    \A p \in Procs :
       pc[p] = "GetToken_RLock" =>
          (ENABLED GetTokenRLock(p) <=> ~\E q \in Procs : Writing(q))

\* A GetToken arrives while another goroutine holds a read lock.
C9_Witness ==
    \E p, q \in Procs :
       /\ pc[p] = "GetToken_RLock" /\ pc[q] = "GetToken_return"
       /\ q \in tokenMu.r

\* The fields goroutine p is about to touch, each with whether it writes.
Access(p) ==
    CASE pc[p] = "SetBaseURL"            -> {<<"baseURL", TRUE>>}
      [] pc[p] = "SetHTTPClient"         -> {<<"httpClient", TRUE>>}
      [] pc[p] = "SetUserAgent"          -> {<<"userAgent", TRUE>>}
      [] pc[p] = "newRequest_url"        -> {<<"baseURL", FALSE>>}
      [] pc[p] = "newRequest_userAgent"  -> {<<"userAgent", FALSE>>}
      [] pc[p] = "do_send"               -> {<<"httpClient", FALSE>>}
      [] pc[p] \in {"GetToken_return", "newRequest_auth", "do_auth"}
                                         -> {<<"token", FALSE>>}
      [] pc[p] = "SetToken_write" /\ HoldsLock(p)   -> {<<"token", TRUE>>}
      [] pc[p] = "Refresh_check" /\ HoldsLock(p)    -> {<<"token", FALSE>>}
      [] pc[p] = "Refresh_inflight"      -> {<<"token", TRUE>>}
      [] OTHER                           -> {}

\* C10: no field of the Client is written by one call while another call
\* reads or writes it.
C10_NoDataRace ==
    \A p, q \in Procs :
       p # q =>
          \A a \in Access(p), b \in Access(q) :
             a[1] = b[1] => (~a[2] /\ ~b[2])

\* C11: the request newRequest builds carries the bearer header of the stored
\* token if and only if that token is non-nil with a non-empty access token;
\* otherwise it has no Authorization header, and never an empty bearer value.
C11_BearerIffAccessToken ==
    [][\A p \in Procs :
         (pc[p] = "newRequest_auth" /\ pc'[p] # "newRequest_auth") =>
            /\ (req'[p].auth # NoHeader) <=> (token # Nil /\ token.AccessToken # "")
            /\ (req'[p].auth # NoHeader) =>
                  (req'[p].auth = token.AccessToken /\ req'[p].auth # "")]_vars

\* newRequest has built a request without the header from a non-nil token
\* whose access token is empty.
C11_Witness ==
    \E p \in Procs :
       /\ op[p] = "service" /\ pc[p] = "Refresh_Lock"
       /\ req[p].auth = NoHeader
       /\ token # Nil /\ token.AccessToken = ""

\* ------------------------------------------------------ ServeHTTP's answers
\* ServeHTTP has written its answer to the request serve.r and returns.
Answered == serve.op = "ServeHTTP" /\ serve.pc = "return"

\* The status of the one response written.
Status == serve.w[1].status

\* io.ReadAll failed on the request's body.
ReadFailed == serve.body = Nil /\ Len(serve.steps) >= 2

\* The signature the request presents: X-Signature, or Authorization when
\* X-Signature is absent or empty.
Presented(r) ==
    IF r.XSignature # EmptyString THEN r.XSignature ELSE r.Authorization

\* The presented signature is not the hex HMAC-SHA256 of the body under Secret.
Mismatch(r) == Presented(r) # EncodeToString(HMAC(Secret, r.Body))

\* The body is a well-formed envelope, and its event tag.
WellFormed(b) == ParseWebhook(b).err = "nil"
TagOf(b) == ParseWebhook(b).event.Event

\* The steps of ServeHTTP in the order of the code.
AllSteps ==
    IF Secret = "" THEN <<"method", "readBody", "parse", "lookup", "handler">>
    ELSE <<"method", "readBody", "verify", "parse", "lookup", "handler">>

\* ServeHTTP ran the steps up to `last` and no other, answered once with
\* `status`, and invoked a handler only if `last` is the handler step.
Decided(last, status) ==
    /\ \E n \in 1..Len(AllSteps) :
          AllSteps[n] = last /\ serve.steps = SubSeq(AllSteps, 1, n)
    /\ Len(serve.w) = 1 /\ Status = status
    /\ last # "handler" => serve.invoked = <<>>

\* The check that decides the answer when the order is the claimed one,
\* the unreadable body counted as a check of its own when readCheck is TRUE.
DecidedInOrder(readCheck) ==
    LET r == serve.r
    IN  IF r.Method # "POST" THEN Decided("method", 405)
        ELSE IF readCheck /\ ReadFailed THEN Decided("readBody", 400)
        ELSE IF Secret # "" /\ Mismatch(r) THEN Decided("verify", 401)
        ELSE IF ~WellFormed(r.Body) THEN Decided("parse", 400)
        ELSE IF TagOf(r.Body) \notin DOMAIN Handlers THEN Decided("lookup", 200)
        ELSE IF serve.herr # "nil" THEN Decided("handler", 500)
        ELSE Decided("handler", 200)

\* C12 as claimed: the checks are method (405), signature (401, with a secret
\* configured), envelope (400), handler lookup (200), handler (500 or 200),
\* in this order, the first failing one alone deciding the response.
C12_CheckOrder == Answered => DecidedInOrder(FALSE)

\* C12: the checks are method (405), reading the body (400), signature (401,
\* with a secret configured), envelope (400), handler lookup (200), handler
\* (500 or 200), in this order; the first failing check alone decides the
\* response and no later step runs, so a wrong signature gets 401 and no
\* handler is invoked, whatever the body.
C12_CheckOrderWithRead == Answered => DecidedInOrder(TRUE)

\* A well-formed envelope with a registered handler was answered 401.
C12_Witness ==
    /\ Answered /\ Status = 401
    /\ WellFormed(serve.r.Body)
    /\ TagOf(serve.r.Body) \in DOMAIN Handlers

\* ------------------------------------------------- VerifyWebhookSignature
\* VerifyWebhookSignature was called directly and has returned serve.out.
Verified == serve.op = "VerifyWebhookSignature"

\* The hex digests of the model: every secret with every payload.
HexDigests == {EncodeToString(HMAC(k, b)) : k \in Secrets, b \in Bodies}

\* C13: VerifyWebhookSignature(secret, body, sig) is true when sig is the hex
\* HMAC-SHA256 of body keyed by secret and false for every other string: the
\* empty one, a digest under another secret or of another body, text that is
\* no lower-case hex digest; the result is always a boolean, never an error.
C13_TrueOnlyForTheDigest ==
    Verified =>
       LET secret == serve.in.secret
           body   == serve.in.payload
           sig    == serve.in.signature
       IN  /\ serve.out \in BOOLEAN
           /\ sig = EncodeToString(HMAC(secret, body)) => serve.out
           /\ sig = EmptyString => ~serve.out
           /\ sig \notin HexDigests => ~serve.out
           /\ (sig \in HexDigests /\ sig.hex.key # secret) => ~serve.out
           /\ (sig \in HexDigests /\ sig.hex.msg # body) => ~serve.out

\* A digest of the same body under another secret was refused.
C13_Witness ==
    /\ Verified
    /\ serve.in.secret = "s1"
    /\ serve.in.signature = EncodeToString(HMAC("s2", serve.in.payload))
    /\ serve.out = FALSE

\* C14 as claimed: with an empty secret VerifyWebhookSignature returns true
\* for every body and every signature string.
C14_EmptySecretAcceptsAll ==
    (Verified /\ serve.in.secret = "") => serve.out = TRUE

\* C14: with an empty secret VerifyWebhookSignature returns true exactly for
\* the hex HMAC-SHA256 of the body under the empty key, and false for every
\* other signature string.
C14_EmptySecretIsAKey ==
    (Verified /\ serve.in.secret = "") =>
       (serve.out <=>
          serve.in.signature = EncodeToString(HMAC("", serve.in.payload)))

\* With an empty secret an empty signature was refused.
C14_Witness ==
    /\ Verified
    /\ serve.in.secret = ""
    /\ serve.in.signature = EmptyString
    /\ serve.out = FALSE

\* ------------------------------------------------------------- open mode
\* The statuses ServeHTTP has written so far, and the steps it has run.
Statuses == {serve.w[i].status : i \in 1..Len(serve.w)}
Ran(step) == \E i \in 1..Len(serve.steps) : serve.steps[i] = step

\* C15: a handler created with an empty secret never answers 401 and never
\* checks a signature: every POST request (whose body could be read) goes on
\* to the parsing of the envelope, and a well-formed one to the lookup of its
\* handler, whatever the X-Signature and Authorization headers hold.
C15_OpenModeNever401 ==
    Secret = "" =>
       /\ 401 \notin Statuses
       /\ ~Ran("verify")
       /\ (Answered /\ serve.r.Method = "POST" /\ ~ReadFailed) =>
             /\ Ran("parse")
             /\ WellFormed(serve.r.Body) => Ran("lookup")

\* In open mode a request whose only signature header holds a digest under
\* a foreign secret was dispatched to its handler and answered 200.
C15_Witness ==
    /\ Secret = ""
    /\ Answered /\ Status = 200
    /\ serve.r.XSignature = EncodeToString(HMAC("s2", serve.r.Body))
    /\ serve.r.Authorization = EmptyString
    /\ serve.invoked # <<>>

\* ------------------------------------------------- the signature's source
\* C16: with a secret configured the signature verified is the X-Signature
\* header, the Authorization header serving only when X-Signature is absent
\* or empty; it is verified against the raw bytes read from the request, the
\* same bytes that are parsed afterwards; so a request is answered 401
\* exactly when that signature is not the digest of its body, also when a
\* wrong X-Signature comes with a correct Authorization.
C16_XSignatureBeforeAuthorization ==
    (Secret # "" /\ Ran("verify")) =>
       LET r       == serve.r
           correct == EncodeToString(HMAC(Secret, r.Body))
       IN  /\ serve.signature =
                 (IF r.XSignature # EmptyString THEN r.XSignature
                  ELSE r.Authorization)
           /\ serve.body = r.Body
           /\ (401 \in Statuses) <=> (serve.signature # correct)
           /\ (r.XSignature \notin {EmptyString, correct}) => 401 \in Statuses
           /\ serve.event # Nil => serve.event = ParseWebhook(serve.body).event

\* A wrong X-Signature beside a correct Authorization was answered 401.
C16_Witness ==
    /\ Secret = "s1"
    /\ Answered /\ Status = 401
    /\ serve.r.XSignature = EncodeToString(HMAC("s2", serve.r.Body))
    /\ serve.r.Authorization = EncodeToString(HMAC("s1", serve.r.Body))

\* ------------------------------------------------------------- dispatch
\* The request was a POST whose body was read and whose signature, if a
\* secret is configured, was right: its body went to ParseWebhook.
Accepted ==
    /\ Answered
    /\ serve.r.Method = "POST"
    /\ ~ReadFailed
    /\ Secret # "" => ~Mismatch(serve.r)

\* C17: an accepted, well-formed envelope whose event tag has no registered
\* handler is answered 200 and no handler is invoked, whatever the registry
\* holds for other tags.
C17_UnregisteredTagIsNoOp ==
    (Accepted /\ WellFormed(serve.r.Body)
              /\ TagOf(serve.r.Body) \notin DOMAIN Handlers) =>
       /\ serve.w = <<[status |-> 200, body |-> Text("", "")]>>
       /\ serve.invoked = <<>>
       /\ ~Ran("handler")

\* A signed envelope with an unregistered tag was answered 200 while the
\* registry held handlers for other tags.
C17_Witness ==
    /\ Secret = "s1"
    /\ Accepted /\ WellFormed(serve.r.Body)
    /\ TagOf(serve.r.Body) \notin DOMAIN Handlers
    /\ DOMAIN Handlers # {}
    /\ Status = 200

\* C18: when the handler registered for the envelope's tag returns a failure,
\* ServeHTTP still returns, having written 500 with the handler error as its
\* one response, never 200.
C18_HandlerFailureIs500 ==
    (serve.op = "ServeHTTP" /\ Ran("handler") /\ serve.herr # "nil") =>
       /\ serve.pc = "return"
       /\ serve.w = <<[status |-> 500, body |-> Text("Handler error", serve.herr)]>>
       /\ 200 \notin Statuses

\* A user handler was invoked, returned a failure, and the answer was 500.
C18_Witness ==
    /\ Answered /\ Status = 500
    /\ serve.invoked # <<>>
    /\ serve.herr = "handler failed"

\* ----------------------------------------------------- typed registrations
\* The target shape of a typed registration.
FieldsOf(kind) ==
    IF kind = "product" THEN ProductFields
    ELSE IF kind = "order" THEN OrderFields
    ELSE CustomerFields

\* The payload `data` of an envelope, as sent, matches the shape of `kind`.
Decodable(kind, data) ==
    \A k \in DOMAIN FieldsOf(kind) \cap DOMAIN data :
       Fits(data[k], FieldsOf(kind)[k])

\* ServeHTTP has called a handler registered by OnProductCreated,
\* OnOrderCreated or OnCustomerCreated and has answered.
TypedDispatch ==
    /\ Answered /\ Ran("handler")
    /\ serve.handler.kind \in {"product", "order", "customer"}

\* C19: under a typed registration, a payload that cannot be decoded into the
\* target shape never reaches the user's typed handler, and the answer is
\* that of neither a malformed envelope (400, parse failure) nor a failure
\* returned by the handler (500, handler error).
C19_SchemaMismatchIsDistinct ==
    (TypedDispatch /\ ~Decodable(serve.handler.kind, serve.r.Body.data)) =>
       /\ serve.invoked = <<>>
       /\ ~(Status = 400 /\ serve.w[1].body.msg = "Failed to parse webhook")
       /\ ~(Status = 500 /\ serve.w[1].body.msg = "Handler error")

\* C20: round-trip law. Under each typed registration, for every envelope X
\* whose data matches the target shape, the typed event handed to the user's
\* handler has every Data field equal to the field of X.data, and Event,
\* Merchant and CreatedAt equal to those of X.
C20_RoundTrip ==
    (TypedDispatch /\ Decodable(serve.handler.kind, serve.r.Body.data)) =>
       \A i \in 1..Len(serve.invoked) :
          LET e == serve.invoked[i].arg
              X == serve.r.Body
          IN  /\ \A k \in DOMAIN FieldsOf(serve.handler.kind) \cap DOMAIN X.data :
                    e.Data[k] = X.data[k].v
              /\ e.Event = X.event.v
              /\ e.Merchant = X.merchant.v
              /\ e.CreatedAt = X.created_at.v

\* ------------------------------------------------------------ the registry
\* C21: every registration (On or a typed On*) stores its handler under its
\* event tag in place of the one the tag had, and leaves every other tag's
\* handler as it was; the registry being a map, a tag has at most one
\* handler, and the handler ServeHTTP dispatches to is the one the registry
\* holds for the envelope's tag, the last one registered.
C21_LastRegistrationWins ==
    [][/\ serve'.op = "On" =>
            LET e == serve'.in.eventType
            IN  /\ DOMAIN Handlers' = DOMAIN Handlers \cup {e}
                /\ Handlers'[e] = serve'.in.handler
                /\ \A t \in DOMAIN Handlers \ {e} : Handlers'[t] = Handlers[t]
       /\ serve'.op # "On" => Handlers' = Handlers
       /\ serve'.pc = "handler" =>
            serve'.handler = Handlers'[serve'.event.Event]]_vars

\* A registration has replaced a different handler of its tag while another
\* tag had a handler.
C21_Witness ==
    /\ serve.op = "On"
    /\ serve.in.replaced \notin {Nil, serve.in.handler}
    /\ DOMAIN Handlers # {serve.in.eventType}
    /\ Handlers[serve.in.eventType] = serve.in.handler

\* -------------------------------------------------- token-endpoint exchange
\* p has returned from ExchangeCode or RefreshToken.
Exchanged(p) == op[p] \in {"ExchangeCode", "RefreshToken"} /\ pc[p] = "idle"

\* What an exchange must return for the answer resp at time t, a status in
\* `good` counting as success: an error (with the status, if that is the
\* cause), or the token made of the answer's fields, expiring at t+expires_in.
ExchangeAgrees(p, good) ==
    LET resp == ret[p].resp
        res  == ret[p].res
        fails == \/ resp.kind = "transport"
                 \/ resp.status \notin good
                 \/ ~resp.parses
    IN  /\ (res.err # ErrNone) <=> fails
        /\ res.err # ErrNone => res.token = Nil
        /\ (resp.kind = "http" /\ resp.status \notin good) =>
              res.status = resp.status
        /\ res.err = ErrNone =>
              /\ res.token # Nil
              /\ res.token.AccessToken = resp.access_token
              /\ res.token.RefreshToken = resp.refresh_token
              /\ res.token.TokenType = resp.token_type
              /\ res.token.Expiry = ret[p].at + resp.expires_in

C23_ValidIffUnexpiredAccessToken ==
    \A p \in Procs : op[p] = "Valid" =>
       LET tok == ret[p].tok
           t   == ret[p].at
       IN  /\ ret[p].valid <=> (tok.AccessToken # "" /\ t < tok.Expiry)
           /\ tok.Expiry <= t => ~ret[p].valid
           /\ tok.AccessToken = "" => ~ret[p].valid
           /\ (tok.AccessToken # "" /\ tok.Expiry > t) => ret[p].valid

\* Valid was false for a token with an access token, called at its expiry.
C23_Witness ==
    \E p \in Procs :
       /\ op[p] = "Valid"
       /\ ret[p].tok.AccessToken # ""
       /\ ret[p].tok.Expiry = ret[p].at
       /\ ~ret[p].valid

\* ---------------------------------------------------- GetToken after SetToken
\* The refresh call answered in this step succeeded.
RefreshSucceeds ==
    /\ Len(calls') = Len(calls) + 1
    /\ calls'[Len(calls')].ok

\* C24: GetToken returns the token most recently stored. A GetToken returns
\* the stored token; a SetToken(t) stores t; and the stored token changes
\* only when a SetToken writes its argument or a refresh call succeeds, so
\* after SetToken(t), with no later SetToken and no successful refresh, every
\* GetToken returns t, and on a fresh Client it returns NewClient's token.
C24_GetTokenReturnsLastStored ==
    [][/\ \A p \in Procs :
             (pc[p] = "GetToken_return" /\ pc'[p] = "idle") => ret'[p] = token
       /\ \A q \in Procs :
             (pc[q] = "SetToken_write" /\ pc'[q] = "idle") => token' = arg[q]
       /\ token' # token =>
             \E q \in Procs :
                \/ pc[q] = "SetToken_write" /\ pc'[q] = "idle"
                \/ pc[q] = "Refresh_inflight" /\ pc'[q] # pc[q] /\ RefreshSucceeds
       /\ (given.SetToken = {} /\ \A i \in 1..Len(calls) : ~calls[i].ok)
             => token = given.NewClient]_vars

\* A SetToken has stored a token other than NewClient's, no refresh call was
\* made, and a GetToken has returned the token SetToken stored.
C24_Witness ==
    \E p, q \in Procs :
       /\ op[q] = "SetToken" /\ pc[q] = "idle"
       /\ op[p] = "GetToken" /\ pc[p] = "idle"
       /\ calls = <<>>
       /\ given.SetToken = {token} /\ token # given.NewClient
       /\ ret[p] = token

\* ------------------------------------------------------ errors of the API
\* C25: an outbound call whose response status is outside 200..299 returns an
\* APIError carrying that status, and IsNotFoundError, IsUnauthorizedError
\* and IsRateLimitError are true exactly for an APIError with status 404,
\* 401 and 429: false for any other status and for any error that is not an
\* APIError.
C25_ErrorsAreClassified ==
    \A p \in Procs :
       /\ (op[p] = "do" /\ ret[p].resp.kind = "http"
                        /\ ret[p].resp.status \notin 200..299)
             => ret[p].err = [type |-> "*APIError", StatusCode |-> ret[p].resp.status]
       /\ op[p] \in {"do", "Classify"} =>
             LET err   == ret[p].err
                 api   == err.type = "*APIError"
             IN  /\ ret[p].is.IsNotFoundError     <=> (api /\ err.StatusCode = 404)
                 /\ ret[p].is.IsUnauthorizedError <=> (api /\ err.StatusCode = 401)
                 /\ ret[p].is.IsRateLimitError    <=> (api /\ err.StatusCode = 429)

\* A call answered 404 has returned an error that only IsNotFoundError
\* accepts, and a call answered 300 one that none of the three accepts.
C25_Witness ==
    \E p, q \in Procs :
       /\ op[p] = "do" /\ ret[p].resp.kind = "http" /\ ret[p].resp.status = 404
       /\ ret[p].is.IsNotFoundError
       /\ ~ret[p].is.IsUnauthorizedError /\ ~ret[p].is.IsRateLimitError
       /\ op[q] = "do" /\ ret[q].resp.kind = "http" /\ ret[q].resp.status = 300
       /\ ret[q].err.type = "*APIError"
       /\ ~ret[q].is.IsNotFoundError

\* -------------------------------------------------------------- Pagination
\* C26: for every Pagination, nil included, HasNextPage is true exactly when
\* the receiver is non-nil and CurrentPage < LastPage, NextPage is
\* CurrentPage + 1 when HasNextPage and 0 otherwise, HasPreviousPage is true
\* exactly when the receiver is non-nil and CurrentPage > 1, and PreviousPage
\* is CurrentPage - 1 when HasPreviousPage and 0 otherwise.
C26_PaginationNavigation ==
    \A p \in Procs : op[p] = "Pagination" =>
       LET pg == ret[p].p
           r  == ret[p]
       IN  /\ r.HasNextPage <=> (pg # Nil /\ pg.CurrentPage < pg.LastPage)
           /\ r.NextPage = IF r.HasNextPage THEN pg.CurrentPage + 1 ELSE 0
           /\ r.HasPreviousPage <=> (pg # Nil /\ pg.CurrentPage > 1)
           /\ r.PreviousPage = IF r.HasPreviousPage THEN pg.CurrentPage - 1 ELSE 0

\* The methods were called on a nil receiver, and on the first page of
\* several, which has a next page and no previous one.
C26_Witness ==
    \E p, q \in Procs :
       /\ op[p] = "Pagination" /\ ret[p].p = Nil
       /\ ~ret[p].HasNextPage /\ ret[p].NextPage = 0
       /\ op[q] = "Pagination" /\ ret[q].p = [CurrentPage |-> 1, LastPage |-> MaxInt]
       /\ ret[q].NextPage = 2 /\ ~ret[q].HasPreviousPage /\ ret[q].PreviousPage = 0

\* ------------------------------------------------- SetToken against a refresh
\* C27: no update is lost between SetToken and a refresh. While a refresh
\* call is in flight the stored token stays the one the call was made for
\* and no SetToken is past its Lock; a successful refresh replaces the token
\* whose refresh token it was obtained with; and a SetToken that waits while
\* the call is in flight is still waiting when the result is stored, so its
\* write comes after the result and is not overwritten by it.
C27_NoLostUpdate ==
    [][\A p \in Procs :
          pc[p] = "Refresh_inflight" =>
             /\ token = obs[p].entry
             /\ \A q \in Procs : pc[q] # "SetToken_write"
             /\ (pc'[p] # "Refresh_inflight" /\ RefreshSucceeds) =>
                   /\ calls'[Len(calls')].refresh_token = token.RefreshToken
                   /\ token' = calls'[Len(calls')].token
             /\ \A q \in Procs :
                   pc[q] = "SetToken_Lock" =>
                      \/ pc'[q] = "SetToken_Lock"
                      \/ pc'[p] = "Refresh_inflight" /\ token' = token]_vars

\* A refresh call has succeeded and a SetToken has returned, and the stored
\* token is SetToken's: it was written after the result of the refresh.
C27_Witness ==
    \E p, q \in Procs :
       /\ Caller(p) /\ pc[p] \notin {"Refresh_Lock", "Refresh_check", "Refresh_inflight"}
       /\ Len(calls) = 1 /\ calls[1].ok
       /\ op[q] = "SetToken" /\ pc[q] = "idle"
       /\ given.SetToken = {token} /\ token # calls[1].token

\* ------------------------------------------------------ the lock never sticks
\* p holds tokenMu, for writing or for reading.
Holds(p) == p \in tokenMu.w \cup tokenMu.r

\* C28: the token lock causes no deadlock and no stuck caller. With every
\* HTTP exchange returning and fair scheduling, every GetToken, SetToken,
\* RefreshTokenIfNeeded and resource call (newRequest, do) that has started
\* returns; a goroutine holds the lock only between a Lock or RLock and the
\* return of the same function, so RefreshTokenIfNeeded has released it on
\* each of its return paths; and no goroutine asks for the lock while it
\* holds it.
C28_NoStuckCaller ==
    /\ \A p \in Procs : (pc[p] # "idle") ~> (pc[p] = "idle")
    /\ [](\A p \in Procs :
            /\ p \in tokenMu.w =>
                  pc[p] \in {"SetToken_write", "Refresh_check", "Refresh_inflight"}
            /\ p \in tokenMu.r =>
                  pc[p] \in {"GetToken_return", "newRequest_auth", "do_auth"}
            /\ pc[p] \in {"GetToken_RLock", "SetToken_Lock", "Refresh_Lock",
                           "newRequest_RLock", "do_RLock"} => ~Holds(p))

\* A RefreshTokenIfNeeded has returned an error, from either error path, and
\* another goroutine has taken the write lock after it.
C28_Witness ==
    \E p, q \in Procs :
       /\ op[p] = "RefreshTokenIfNeeded" /\ pc[p] = "idle"
       /\ ret[p] \in {[err |-> ErrNoRefreshToken], [err |-> ErrRefreshFailed]}
       /\ pc[q] = "SetToken_write" /\ tokenMu.w = {q}

\* ------------------------------------------- the refresh token after a refresh
\* C29: after a successful refresh the stored token is entirely the token of
\* the response, its refresh token included even when that is empty, nothing
\* of the previous token being carried over; and from a state whose stored
\* token has no refresh token no step makes a refresh call, so none is made
\* until SetToken stores a token that has one.
C29_RefreshTokenIsTheEndpoints ==
    [][/\ \A p \in Procs :
             (pc[p] = "Refresh_inflight" /\ pc'[p] # "Refresh_inflight"
                 /\ RefreshSucceeds)
                => /\ token' = calls'[Len(calls')].token
                   /\ token'.RefreshToken = calls'[Len(calls')].token.RefreshToken
       /\ (token = Nil \/ token.RefreshToken = "") =>
             /\ calls' = calls
             /\ \A p \in Procs : pc'[p] # "Refresh_inflight"]_vars

\* A refresh has stored a token without refresh token, already on the
\* margin, and the next RefreshTokenIfNeeded has failed without a call.
C29_Witness ==
    \E p \in Procs :
       /\ Len(calls) = 1 /\ calls[1].ok /\ calls[1].refresh_token # ""
       /\ token = calls[1].token /\ token.RefreshToken = ""
       /\ op[p] = "RefreshTokenIfNeeded" /\ pc[p] = "idle"
       /\ ret[p] = [err |-> ErrNoRefreshToken]

====
